---- MODULE Spec2Model ----
(***************************************************************************)
(* Model of the network cutover wizard: the control API Lambda             *)
(* (src/lambdas/api/lambda_function.py) and the workflow step Lambda       *)
(* (src/lambdas/workflow/lambda_function.py) acting on one DynamoDB table  *)
(* of project items and on the Step Functions state machine.               *)
(***************************************************************************)
EXTENDS Integers, Sequences, FiniteSets, TLC

\* ---- bound of the model ----
\* requests and clock ticks in one behaviour: projects created, start_cutover
\* calls that find their item, workflow invocations outside any execution,
\* and advances of the wall clock, all together
MaxOps == 4

\* ---- values ----
Absent == "absent"    \* a missing attribute / a missing payload key (None)
NoTime == -1          \* a missing timestamp attribute
Ids == 1..MaxOps
NoItem == [projectId |-> 0]

StepNames == {"precheck", "execute", "validate"}
\* event["step"] values: the three steps, an unknown one, empty, missing
StepInputs == StepNames \cup {"rollback", "", Absent}
\* event["projectId"] values: an id, or 0 for a missing/empty one
PidInputs == Ids \cup {0}

\* payloads of POST /projects
Payloads ==
  { [name |-> Absent, type |-> Absent, pattern |-> Absent],
    [name |-> "", type |-> "vpn", pattern |-> Absent],
    [name |-> "vpc-migration", type |-> Absent, pattern |-> "phased"] }

\* a check for None only, letting the empty string through
Falsy_NoneOnly(v) == v = Absent

\* Python truthiness of a string-or-None value
Falsy(v) == v = Absent \/ v = ""

\* payload.get(key, default)
GetOr(v, default) == IF v = Absent THEN default ELSE v

VARIABLES
  store,    \* the DynamoDB table: id -> item or NoItem
  issued,   \* ids uuid4 has returned so far
  clock,    \* datetime.now(timezone.utc)
  calls,    \* start_cutover invocations past their get_item
  runs,     \* executions of the state machine
  invoked,  \* number of invocations of the workflow Lambda outside any execution
  last      \* the most recent completed request and its outcome

vars == <<store, issued, clock, calls, runs, invoked, last>>

\* requests and ticks so far
Used == Cardinality(issued) + Len(calls) + invoked + clock

\* ---- the DynamoDB table operations the Lambdas use ----

\* an item with only its key, as update_item creates when the key is new
KeyOnlyItem(id) ==
  [projectId |-> id, name |-> Absent, type |-> Absent, pattern |-> Absent,
   status |-> Absent, createdAt |-> NoTime, updatedAt |-> NoTime,
   steps |-> [s \in StepNames |-> Absent],
   precheckSummary |-> Absent, executionSummary |-> Absent,
   validationSummary |-> Absent]

\* table.put_item(Item=item): unconditional, replaces any item of that key
PutItem(st, item) == [st EXCEPT ![item.projectId] = item]

\* get_item answering a missing key with a key-only item
GetItem_Default(st, id) == IF st[id] = NoItem THEN KeyOnlyItem(id) ELSE st[id]

\* table.get_item(Key=...).get("Item")
GetItem(st, id) == st[id]

\* table.scan(Limit=50): the items a scan may return
ScanLimit == 50
ScanResults(st) ==
  { S \in SUBSET { id \in Ids : st[id] # NoItem } :
      \/ Cardinality(S) = Cardinality({ id \in Ids : st[id] # NoItem })
      \/ Cardinality(S) = ScanLimit }

\* execute and validate passing each other's overall status
OverallOf_Swapped(step) ==
  CASE step = "precheck" -> "PRECHECK_COMPLETE"
    [] step = "execute" -> "SUCCESS"
    [] step = "validate" -> "IN_PROGRESS"

\* do_validate passing do_execute's overall status
OverallOf_CopyPaste(step) ==
  CASE step = "precheck" -> "PRECHECK_COMPLETE"
    [] step = "execute" -> "IN_PROGRESS"
    [] step = "validate" -> "IN_PROGRESS"

\* overall status each do_<step> passes to _update_step
OverallOf(step) ==
  CASE step = "precheck" -> "PRECHECK_COMPLETE"
    [] step = "execute" -> "IN_PROGRESS"
    [] step = "validate" -> "SUCCESS"

\* the base item an update_item works on: the stored one, or a new key-only one
BaseItem(st, id) == IF st[id] = NoItem THEN KeyOnlyItem(id) ELSE st[id]

\* a start that also puts the steps back to PENDING
StartUpdateItem_ResetSteps(st, id, now) ==
  [st EXCEPT ![id] = [BaseItem(st, id) EXCEPT !.status = "SCHEDULED",
                                              !.updatedAt = now,
                                              !.steps = [s \in StepNames |-> "PENDING"]]]

\* a start that replaces the item (a put) instead of updating two attributes
StartUpdateItem_Replace(st, id, now) ==
  [st EXCEPT ![id] = [KeyOnlyItem(id) EXCEPT !.status = "SCHEDULED",
                                             !.updatedAt = now,
                                             !.steps = BaseItem(st, id).steps]]

\* start_cutover's update_item: SET #s = :s, updatedAt = :t  (no condition)
StartUpdateItem(st, id, now) ==
  [st EXCEPT ![id] = [BaseItem(st, id) EXCEPT !.status = "SCHEDULED",
                                              !.updatedAt = now]]

\* SET #steps.#s needs the steps map to exist in the item
StepsPathValid(st, id) ==
  /\ st[id] # NoItem
  /\ \A s \in StepNames : st[id].steps[s] # Absent

\* a step write that sets the overall status but not the step's own
StepWrite_StatusOnly(item, step, stepStatus, overall, now) ==
  [item EXCEPT !.updatedAt = now, !.status = overall]

\* a step write that leaves the overall status for a later update
StepWrite_StepOnly(item, step, stepStatus, overall, now) ==
  LET a == [item EXCEPT !.updatedAt = now,
                        !.steps[step] = stepStatus]
  IN  CASE step = "precheck" -> [a EXCEPT !.precheckSummary = "set"]
        [] step = "execute" -> [a EXCEPT !.executionSummary = "set"]
        [] step = "validate" -> [a EXCEPT !.validationSummary = "set"]

\* _update_step's update_item: one SET of updatedAt, steps.<step>, status and
\* the summary attribute (no condition)
StepWrite(item, step, stepStatus, overall, now) ==
  LET a == [item EXCEPT !.updatedAt = now,
                        !.steps[step] = stepStatus,
                        !.status = overall]
  IN  CASE step = "precheck" -> [a EXCEPT !.precheckSummary = "set"]
        [] step = "execute" -> [a EXCEPT !.executionSummary = "set"]
        [] step = "validate" -> [a EXCEPT !.validationSummary = "set"]

\* an update_item that creates the item when the key is new
UpdateStep_Upsert(st, id, step, stepStatus, overall, now) ==
  [store |-> [st EXCEPT ![id] = StepWrite(BaseItem(st, id), step, stepStatus, overall, now)],
   result |-> "OK"]

\* _update_step(project_id, step, "OK", overall, {summary}): store and outcome
UpdateStep(st, id, step, stepStatus, overall, now) ==
  IF StepsPathValid(st, id)
    THEN [store |-> [st EXCEPT ![id] = StepWrite(st[id], step, stepStatus, overall, now)],
          result |-> "OK"]
    ELSE [store |-> st, result |-> "StoreError"]

\* do_precheck / do_execute / do_validate
DoStep(st, id, step, now) == UpdateStep(st, id, step, "OK", OverallOf(step), now)

\* handler(event, context) of the workflow Lambda: store and outcome
Handler(st, step, pid, now) ==
  IF Falsy(step) \/ pid = 0
    THEN [store |-> st, result |-> "InvalidInput"]
    ELSE IF step \in StepNames
      THEN DoStep(st, pid, step, now)
      ELSE [store |-> st, result |-> "UnknownStep"]

\* ---- initial state: empty table, no execution ----
Init ==
  /\ store = [id \in Ids |-> NoItem]
  /\ issued = {}
  /\ clock = 0
  /\ calls = <<>>
  /\ runs = <<>>
  /\ invoked = 0
  /\ last = [op |-> "none", code |-> "none"]

\* the wall clock advances
Tick ==
  /\ Used < MaxOps
  /\ clock' = clock + 1
  /\ UNCHANGED <<store, issued, calls, runs, invoked, last>>

\* an id generator that may repeat itself
Uuid4_Any == Ids

\* str(uuid.uuid4()): an id never returned before; ids are opaque, so the
\* least unused one stands for whichever new value uuid4 returns
Uuid4 == { id \in Ids \ issued : \A o \in Ids \ issued : id <= o }

\* the item create_project builds
NewItem(id, payload, now) ==
  [projectId |-> id, name |-> payload.name,
   type |-> GetOr(payload.type, "generic"),
   pattern |-> GetOr(payload.pattern, "standard"),
   status |-> "REGISTERED", createdAt |-> now, updatedAt |-> now,
   steps |-> [s \in StepNames |-> "PENDING"],
   precheckSummary |-> Absent, executionSummary |-> Absent,
   validationSummary |-> Absent]

\* create_project(payload)
CreateProject(payload) ==
  IF Falsy(payload.name)
    THEN /\ last' = [op |-> "create", code |-> "400"]
         /\ UNCHANGED <<store, issued, clock, calls, runs, invoked>>
    ELSE \E id \in Uuid4 :
         /\ Used < MaxOps
         /\ issued' = issued \cup {id}
         /\ store' = PutItem(store, NewItem(id, payload, clock))
         /\ last' = [op |-> "create", code |-> "201"]
         /\ UNCHANGED <<clock, calls, runs, invoked>>

\* list_projects()
ListProjects ==
  /\ \E S \in ScanResults(store) :
       last' = [op |-> "list", code |-> "200"]
  /\ UNCHANGED <<store, issued, clock, calls, runs, invoked>>

\* get_project(project_id)
GetProject(id) ==
  /\ last' = [op |-> "get", code |-> IF GetItem(store, id) = NoItem THEN "404" ELSE "200"]
  /\ UNCHANGED <<store, issued, clock, calls, runs, invoked>>

\* start_cutover, lines 111-114: get_item and the 404 return
StartGet(id) ==
  IF GetItem(store, id) = NoItem
    THEN /\ last' = [op |-> "start", code |-> "404"]
         /\ UNCHANGED <<store, issued, clock, calls, runs, invoked>>
    ELSE /\ Used < MaxOps
         /\ calls' = Append(calls, [pid |-> id, pc |-> "update"])
         /\ UNCHANGED <<store, issued, clock, runs, invoked, last>>

\* a start that goes on to the trigger without its update_item
StartUpdate_Skipped(c) ==
  /\ calls[c].pc = "update"
  /\ calls' = [calls EXCEPT ![c].pc = "trigger"]
  /\ UNCHANGED <<store, issued, clock, runs, invoked, last>>

\* start_cutover, lines 117-123: the update_item to SCHEDULED
StartUpdate(c) ==
  /\ calls[c].pc = "update"
  /\ store' = StartUpdateItem(store, calls[c].pid, clock)
  /\ calls' = [calls EXCEPT ![c].pc = "trigger"]
  /\ UNCHANGED <<issued, clock, runs, invoked, last>>

\* a trigger that leaves the call able to trigger again
StartTrigger_Again(c) ==
  /\ calls[c].pc = "trigger"
  /\ runs' = Append(runs, [by |-> c, pid |-> calls[c].pid, pos |-> "precheck"])
  /\ last' = [op |-> "start", code |-> "200"]
  /\ UNCHANGED <<store, issued, clock, calls, invoked>>

\* a 200 return without start_execution
StartTrigger_NoRun(c) ==
  /\ calls[c].pc = "trigger"
  /\ calls' = [calls EXCEPT ![c].pc = "done"]
  /\ last' = [op |-> "start", code |-> "200"]
  /\ UNCHANGED <<store, issued, clock, runs, invoked>>

\* start_cutover, lines 126-139: start_execution and the 200 return
StartTrigger(c) ==
  /\ calls[c].pc = "trigger"
  /\ runs' = Append(runs, [by |-> c, pid |-> calls[c].pid, pos |-> "precheck"])
  /\ calls' = [calls EXCEPT ![c].pc = "done"]
  /\ last' = [op |-> "start", code |-> "200"]
  /\ UNCHANGED <<store, issued, clock, invoked>>

\* start_cutover, lines 127-130: start_execution raises, the call ends in error
StartTriggerFail(c) ==
  /\ calls[c].pc = "trigger"
  /\ calls' = [calls EXCEPT ![c].pc = "failed"]
  /\ last' = [op |-> "start", code |-> "500"]
  /\ UNCHANGED <<store, issued, clock, runs, invoked>>

\* the state machine's order of tasks
NextPos(pos) ==
  CASE pos = "precheck" -> "execute"
    [] pos = "execute" -> "validate"
    [] pos = "validate" -> "done"

\* an execution invokes the workflow Lambda for its current task
RunStep(r) ==
  /\ runs[r].pos \in StepNames
  /\ LET h == Handler(store, runs[r].pos, runs[r].pid, clock)
     IN  /\ store' = h.store
         /\ runs' = [runs EXCEPT ![r].pos =
                       IF h.result = "OK" THEN NextPos(runs[r].pos) ELSE "aborted"]
         /\ last' = [op |-> "step", code |-> h.result]
  /\ UNCHANGED <<issued, clock, calls, invoked>>

\* the workflow Lambda invoked with an arbitrary event
StepInvoke(step, pid) ==
  /\ Used < MaxOps
  /\ invoked' = invoked + 1
  /\ LET h == Handler(store, step, pid, clock)
     IN  /\ store' = h.store
         /\ last' = [op |-> "step", code |-> h.result]
  /\ UNCHANGED <<issued, clock, calls, runs>>

Next ==
  \/ Tick
  \/ \E payload \in Payloads : CreateProject(payload)
  \/ ListProjects
  \/ \E id \in Ids : GetProject(id)
  \/ \E id \in Ids : StartGet(id)
  \/ \E c \in 1..Len(calls) : StartUpdate(c)
  \/ \E c \in 1..Len(calls) : StartTrigger(c)
  \/ \E c \in 1..Len(calls) : StartTriggerFail(c)
  \/ \E r \in 1..Len(runs) : RunStep(r)
  \/ \E step \in StepInputs, pid \in PidInputs : StepInvoke(step, pid)

Spec == Init /\ [][Next]_vars

\* ---- one start per project, steps invoked by executions only ----

\* POST /projects/{id}/start on a project nobody has started yet
StartOnce(id) ==
  /\ \A c \in 1..Len(calls) : calls[c].pid # id
  /\ StartGet(id)

NextE2E ==
  \/ Tick
  \/ \E payload \in Payloads : CreateProject(payload)
  \/ \E id \in Ids : StartOnce(id)
  \/ \E c \in 1..Len(calls) : StartUpdate(c)
  \/ \E c \in 1..Len(calls) : StartTrigger(c)
  \/ \E r \in 1..Len(runs) : RunStep(r)

SpecE2E == Init /\ [][NextE2E]_vars

\* ---- any number of starts, steps invoked by executions only, no failure ----

NextRuns ==
  \/ Tick
  \/ \E payload \in Payloads : CreateProject(payload)
  \/ \E id \in Ids : StartGet(id)
  \/ \E c \in 1..Len(calls) : StartUpdate(c)
  \/ \E c \in 1..Len(calls) : StartTrigger(c)
  \/ \E r \in 1..Len(runs) : RunStep(r)

SpecRuns == Init /\ [][NextRuns]_vars

\* ---- properties ----

Exists(id) == store[id] # NoItem

\* position of an overall status in REGISTERED -> ... -> SUCCESS, FAILED last
Rank(status) ==
  CASE status = "REGISTERED" -> 0
    [] status = "SCHEDULED" -> 1
    [] status = "PRECHECK_COMPLETE" -> 2
    [] status = "IN_PROGRESS" -> 3
    [] status = "SUCCESS" -> 4
    [] status = "FAILED" -> 5
    [] OTHER -> -1

\* overall status a step's transition requires
Required(step) ==
  CASE step = "precheck" -> "SCHEDULED"
    [] step = "execute" -> "PRECHECK_COMPLETE"
    [] step = "validate" -> "IN_PROGRESS"

\* the workflow Lambda runs for (step, id), from an execution or directly
Invocation(step, id) ==
  \/ StepInvoke(step, id)
  \/ \E r \in 1..Len(runs) : runs[r].pos = step /\ runs[r].pid = id /\ RunStep(r)

TypeOK ==
  /\ clock \in 0..MaxOps
  /\ issued \subseteq Ids
  /\ \A id \in Ids : Exists(id) => store[id].projectId = id

\* C1: no write ever moves a project's overall status to one earlier in
\* REGISTERED -> SCHEDULED -> PRECHECK_COMPLETE -> IN_PROGRESS -> SUCCESS,
\* nor out of FAILED.
C1_NoRegression ==
  [][\A id \in Ids : (Exists(id) /\ store'[id] # NoItem) =>
        Rank(store'[id].status) >= Rank(store[id].status)]_vars

\* C2: a step invoked while the overall status is not the one it requires,
\* and not yet OK, fails with InvalidTransition and changes no record.
C2_OutOfOrderRejected ==
  [][\A step \in StepNames, id \in Ids :
        ( /\ Exists(id)
          /\ store[id].status # Required(step)
          /\ store[id].steps[step] # "OK"
          /\ Invocation(step, id) )
        => (store' = store /\ last'.code = "InvalidTransition")]_vars

\* C3: the SCHEDULED write of StartCutover is applied only to a REGISTERED
\* project; on any other status the stored status stays what it was.
C3_StartOnlyFromRegistered ==
  [][\A c \in 1..Len(calls) :
        (StartUpdate(c) /\ store[calls[c].pid].status # "REGISTERED")
        => store'[calls[c].pid].status = store[calls[c].pid].status]_vars

\* C4: a step invoked again after it recorded OK returns success and leaves
\* the stored record as it was.
C4_Idempotent ==
  [][\A step \in StepNames, id \in Ids :
        (Exists(id) /\ store[id].steps[step] = "OK" /\ Invocation(step, id))
        => (store' = store /\ last'.code = "OK")]_vars
RunsOf(id) == { r \in 1..Len(runs) : runs[r].pid = id }
SuccessfulStarts(id) ==
  { c \in 1..Len(calls) : calls[c].pid = id /\ calls[c].pc = "done" }

\* C6: every successful StartCutover call triggers exactly one run with input
\* {projectId}: per project, runs started = successful calls.
C6_OneRunPerSuccessfulCall ==
  \A id \in Ids :
    /\ Cardinality(RunsOf(id)) = Cardinality(SuccessfulStarts(id))
    /\ \A r \in RunsOf(id) : calls[runs[r].by].pid = id

C6_Witness ==
  \E id \in Ids :
    /\ Cardinality(SuccessfulStarts(id)) = 2
    /\ \E r1, r2 \in RunsOf(id) : runs[r1].pos = "validate" /\ runs[r2].pos = "precheck"

\* overall status a step's transition results in
ResultOf(step) ==
  CASE step = "precheck" -> "PRECHECK_COMPLETE"
    [] step = "execute" -> "IN_PROGRESS"
    [] step = "validate" -> "SUCCESS"

E2EChain ==
  { <<"REGISTERED", "SCHEDULED">>, <<"SCHEDULED", "PRECHECK_COMPLETE">>,
    <<"PRECHECK_COMPLETE", "IN_PROGRESS">>, <<"IN_PROGRESS", "SUCCESS">> }

\* C7: with one StartCutover and one run per project, the status goes
\* REGISTERED, SCHEDULED, PRECHECK_COMPLETE, IN_PROGRESS, SUCCESS in that
\* order, every invocation sets its own step OK, and a finished run leaves
\* SUCCESS with all three steps OK.
C7_EndToEnd ==
  /\ [][\A id \in Ids :
          /\ (~Exists(id) /\ store'[id] # NoItem) => store'[id].status = "REGISTERED"
          /\ (Exists(id) /\ store'[id].status # store[id].status)
               => <<store[id].status, store'[id].status>> \in E2EChain
          /\ \A r \in 1..Len(runs) :
               (runs[r].pid = id /\ RunStep(r)) =>
                 /\ store[id].status = Required(runs[r].pos)
                 /\ store'[id].status = ResultOf(runs[r].pos)
                 /\ store'[id].steps[runs[r].pos] = "OK"
                 /\ last'.code = "OK"]_vars
  /\ [](\A r \in 1..Len(runs) :
          runs[r].pos = "done" =>
            /\ store[runs[r].pid].status = "SUCCESS"
            /\ \A s \in StepNames : store[runs[r].pid].steps[s] = "OK")

C7_Witness ==
  \E r \in 1..Len(runs) :
    /\ runs[r].pos = "done"
    /\ store[runs[r].pid].status = "SUCCESS"
    /\ store[runs[r].pid].steps = [s \in StepNames |-> "OK"]

\* C8: a CreateProject with a non-empty name stores a REGISTERED record with
\* all steps PENDING under an id no record had, and touches no other record.
C8_CreateFresh ==
  [][\A payload \in Payloads :
        (CreateProject(payload) /\ ~Falsy(payload.name)) =>
          /\ last'.code = "201"
          /\ \E id \in Ids :
               /\ ~Exists(id)
               /\ store'[id] # NoItem
               /\ store'[id].projectId = id
               /\ store'[id].name = payload.name
               /\ store'[id].status = "REGISTERED"
               /\ \A s \in StepNames : store'[id].steps[s] = "PENDING"
               /\ \A o \in Ids \ {id} : store'[o] = store[o]]_vars

C8_Witness ==
  /\ last = [op |-> "create", code |-> "201"]
  /\ \A id \in 1..2 : Exists(id) /\ store[id].status = "REGISTERED"

\* C9: GetProject and StartCutover on an id without a record answer 404,
\* write nothing and start no run.
C9_NotFound ==
  [][\A id \in Ids :
        (~Exists(id) /\ (GetProject(id) \/ StartGet(id))) =>
          /\ last'.code = "404"
          /\ store' = store
          /\ calls' = calls
          /\ runs' = runs]_vars

C9_Witness ==
  /\ last = [op |-> "start", code |-> "404"]
  /\ \E id \in Ids : ~Exists(id)
  /\ \E id \in Ids : Exists(id)

\* C10: a step's status only ever changes from PENDING to OK or FAILED.
C10_StepStatusForward ==
  [][\A id \in Ids, s \in StepNames :
        (Exists(id) /\ store'[id] # NoItem /\ store'[id].steps[s] # store[id].steps[s])
        => /\ store[id].steps[s] = "PENDING"
           /\ store'[id].steps[s] \in {"OK", "FAILED"}]_vars

C10_Witness ==
  \E id \in Ids :
    /\ Exists(id)
    /\ store[id].steps["precheck"] = "OK"
    /\ store[id].status = "SCHEDULED"
    /\ \E c \in 1..Len(calls) : calls[c].pid = id /\ calls[c].pc = "done"
\* No reachable record carries FAILED: do_precheck, do_execute and do_validate
\* pass "OK" only (the case C11 is about never arises).
NeverFailed ==
  \A id \in Ids : Exists(id) =>
    /\ store[id].status # "FAILED"
    /\ \A s \in StepNames : store[id].steps[s] # "FAILED"

\* C12: a CreateProject without a name answers 400 and creates nothing; a
\* workflow invocation without step or projectId fails with InvalidInput, one
\* with an unrecognised step with UnknownStep, and neither changes a record.
C12_InvalidInputNoWrite ==
  [][/\ last'.op = "create" =>
          \A payload \in Payloads :
            (payload.name \in {Absent, ""} /\ CreateProject(payload)) =>
              (last'.code = "400" /\ store' = store /\ issued' = issued)
     /\ invoked' # invoked =>
          \A step \in StepInputs, pid \in PidInputs :
            StepInvoke(step, pid) =>
              /\ (step \in {Absent, ""} \/ pid = 0) =>
                   (last'.code = "InvalidInput" /\ store' = store)
              /\ (step = "rollback" /\ pid # 0) =>
                   (last'.code = "UnknownStep" /\ store' = store)]_vars

C12_Witness ==
  /\ last = [op |-> "step", code |-> "UnknownStep"]
  /\ \E id \in Ids : Exists(id) /\ store[id].status = "SCHEDULED"

\* C13: every StartCutover or Step Runner write of updatedAt also changes the
\* overall status or a step status of that record.
C13_UpdatedAtOnlyWithChange ==
  [][\A id \in Ids :
        ( /\ Exists(id)
          /\ \/ \E c \in 1..Len(calls) : calls[c].pid = id /\ StartUpdate(c)
             \/ \E step \in StepNames : Invocation(step, id) )
        => \/ store'[id].status # store[id].status
           \/ store'[id].steps # store[id].steps]_vars

\* C14: no record is ever deleted, and a record appears only in a step of
\* CreateProject.
C14_RecordsOnlyByCreate ==
  [][\A id \in Ids :
        /\ Exists(id) => store'[id] # NoItem
        /\ (~Exists(id) /\ store'[id] # NoItem) =>
             \E payload \in Payloads : CreateProject(payload)]_vars

C14_Witness ==
  /\ last = [op |-> "step", code |-> "StoreError"]
  /\ \E id \in Ids : ~Exists(id)
  /\ invoked > 0
\* C15: StartCutover and the Step Runner change a record only when its stored
\* overall status is the one their transition requires (REGISTERED for start,
\* Required(step) for a step).
C15_ConditionalWrites ==
  [][\A id \in Ids :
        /\ \A c \in 1..Len(calls) :
             (calls[c].pid = id /\ StartUpdate(c) /\ store'[id] # store[id])
               => store[id].status = "REGISTERED"
        /\ \A step \in StepNames :
             (Exists(id) /\ Invocation(step, id) /\ store'[id] # store[id])
               => store[id].status = Required(step)]_vars

RunsBy(c) == { r \in 1..Len(runs) : runs[r].by = c }

\* C16: the SCHEDULED write of a StartCutover call comes before its trigger:
\* a project with a run is no longer REGISTERED, a call that has not reached
\* or has failed its trigger has started no run, and a failed trigger changes
\* neither the record nor the runs.
C16_State ==
  /\ \A r \in 1..Len(runs) :
       /\ Exists(runs[r].pid)
       /\ store[runs[r].pid].status # "REGISTERED"
       /\ calls[runs[r].by].pc = "done"
  /\ \A c \in 1..Len(calls) :
       calls[c].pc \in {"update", "trigger", "failed"} => RunsBy(c) = {}

C16_WriteBeforeTrigger ==
  [][/\ C16_State'
     /\ \A c \in 1..Len(calls) :
          /\ StartUpdate(c) =>
               (store'[calls[c].pid].status = "SCHEDULED" /\ runs' = runs)
          /\ StartTriggerFail(c) =>
               (store' = store /\ runs' = runs /\ last'.code = "500")]_vars

C16_Witness ==
  \E c \in 1..Len(calls) :
    /\ calls[c].pc = "failed"
    /\ store[calls[c].pid].status = "SCHEDULED"
    /\ \A r \in 1..Len(runs) : runs[r].pid # calls[c].pid

\* the summary attribute a step writes
SummaryOf(item, step) ==
  CASE step = "precheck" -> item.precheckSummary
    [] step = "execute" -> item.executionSummary
    [] step = "validate" -> item.validationSummary

\* C17: a Step Runner invocation that returns OK writes its step status, the overall status,
\* updatedAt and its summary in one step, so no state shows a step's overall
\* status without its step status and summary, or a step status without its
\* summary.
C17_State ==
  \A id \in Ids, step \in StepNames :
    Exists(id) =>
      /\ store[id].status = ResultOf(step) => store[id].steps[step] = "OK"
      /\ store[id].steps[step] = "OK" <=> SummaryOf(store[id], step) = "set"

C17_AtomicStepWrite ==
  [][/\ C17_State'
     /\ (last'.code = "OK" /\ (invoked' # invoked \/ runs' # runs)) =>
          \A id \in Ids, step \in StepNames :
            (Exists(id) /\ Invocation(step, id)) =>
              /\ store'[id].steps[step] = "OK"
              /\ store'[id].status = ResultOf(step)
              /\ store'[id].updatedAt = clock
              /\ SummaryOf(store'[id], step) = "set"]_vars

C17_Witness ==
  \E id \in Ids :
    /\ Exists(id)
    /\ store[id].status = "IN_PROGRESS"
    /\ store[id].steps["execute"] = "OK"
    /\ store[id].executionSummary = "set"
    /\ store[id].updatedAt > store[id].createdAt
CallsOn(id) == { c \in 1..Len(calls) : calls[c].pid = id }

\* every StartCutover call on id has returned and every run has finished
Quiescent(id) ==
  /\ CallsOn(id) # {}
  /\ \A c \in CallsOn(id) : calls[c].pc = "done"
  /\ \A r \in RunsOf(id) : runs[r].pos = "done"

\* C18: with steps invoked by runs only and no failure, once every
\* StartCutover call on a project has returned and every run of it has done
\* its three invocations, the project is SUCCESS with all three steps OK.
C18_QuiescentSuccess ==
  \A id \in Ids :
    Quiescent(id) =>
      /\ store[id].status = "SUCCESS"
      /\ \A s \in StepNames : store[id].steps[s] = "OK"

C18_Witness ==
  \E id \in Ids :
    /\ Quiescent(id)
    /\ Cardinality(CallsOn(id)) >= 2
    /\ Cardinality(RunsOf(id)) >= 2
    /\ store[id].status = "SUCCESS"

\* C19: with steps invoked by runs only, SUCCESS implies all three steps OK,
\* IN_PROGRESS implies precheck and execute OK, PRECHECK_COMPLETE implies
\* precheck OK.
C19_StatusStepConsistency ==
  \A id \in Ids :
    Exists(id) =>
      /\ store[id].status = "SUCCESS" =>
           \A s \in StepNames : store[id].steps[s] = "OK"
      /\ store[id].status = "IN_PROGRESS" =>
           \A s \in {"precheck", "execute"} : store[id].steps[s] = "OK"
      /\ store[id].status = "PRECHECK_COMPLETE" =>
           store[id].steps["precheck"] = "OK"

C19_Witness ==
  \E id \in Ids :
    /\ Exists(id)
    /\ store[id].status = "IN_PROGRESS"
    /\ store[id].steps["validate"] = "OK"
    /\ \E r \in RunsOf(id) : runs[r].pos = "validate"

\* the attributes neither StartCutover nor the Step Runner may touch
Fixed(item) ==
  <<item.projectId, item.name, item.type, item.pattern, item.createdAt>>

\* C20: a Step Runner invocation for step s changes only steps[s], the
\* overall status, updatedAt and s's summary of the named project; the write
\* of StartCutover changes only the overall status and updatedAt; neither
\* touches another project's record.
C20_Frame ==
  [][/\ \A c \in 1..Len(calls) :
          StartUpdate(c) =>
            LET id == calls[c].pid IN
              /\ \A o \in Ids \ {id} : store'[o] = store[o]
              /\ store'[id] = [store[id] EXCEPT !.status = store'[id].status,
                                                !.updatedAt = store'[id].updatedAt]
     /\ (invoked' # invoked \/ runs' # runs) =>
          \A id \in Ids, step \in StepNames :
            (Exists(id) /\ Invocation(step, id)) =>
              /\ \A o \in Ids \ {id} : store'[o] = store[o]
              /\ Fixed(store'[id]) = Fixed(store[id])
              /\ \A s \in StepNames \ {step} :
                   /\ store'[id].steps[s] = store[id].steps[s]
                   /\ SummaryOf(store'[id], s) = SummaryOf(store[id], s)]_vars

C20_Witness ==
  /\ \E id \in Ids :
       /\ Exists(id)
       /\ store[id].status = "PRECHECK_COMPLETE"
       /\ store[id].name = "vpc-migration"
       /\ store[id].steps["execute"] = "PENDING"
       /\ \E c \in CallsOn(id) : calls[c].pc = "done"
  /\ \E o \in Ids : Exists(o) /\ store[o].status = "REGISTERED"
====
